---- MODULE Spec2Model ----
(***************************************************************************)
(* Model of atc/db/base_resource_type.go: BaseResourceType.Find,           *)
(* BaseResourceType.FindOrCreate and BaseResourceType.create, run by       *)
(* several callers, each inside its own database transaction, against the  *)
(* base_resource_types table.                                              *)
(*                                                                         *)
(* The table is modelled as the committed image of every row (catalog),    *)
(* the uncommitted version a transaction has written (draft, writer) and   *)
(* the row locks SELECT ... FOR SHARE leaves behind until the transaction  *)
(* ends (share).  Statements are atomic; a FindOrCreate call is two        *)
(* statements (the SELECT of Find, then the INSERT ... ON CONFLICT of      *)
(* create), and other callers may run between them.                        *)
(***************************************************************************)
EXTENDS Integers, Sequences, FiniteSets, TLC

\* ------------------------------------------------------------------ bounds
MaxCallers == 2
MaxCalls == 3
MaxIdCalls == 2

Callers == 1..MaxCallers
Names == {"git", "s3"}

\* ------------------------------------------------------------ column values
\* defaults column (sql.NullString): SQL NULL, a JSON document, a malformed text
NullDefaults == "NULL"
JsonDefaults == "{\"k\":\"v\"}"
BadDefaults == "{"
DefaultsColumn == {NullDefaults, JsonDefaults, BadDefaults}

\* atc.Source values: the nil map, and the map decoded from JsonDefaults
NilSource == "nil"
KVSource == "k=v"

\* error values
NoErr == "nil"
ErrStorage == "storage"
ErrDeadlock == "deadlock"
ErrJson == "json"

\* ------------------------------------------------------------------- rows
NoRow == [id |-> 0, unique |-> FALSE, defaults |-> NullDefaults]
Exists(row) == row.id > 0

\* the id each name carries when it is already in the table at the start
SeedId(n) == IF n = "git" THEN 1 ELSE 2
\* the first id the sequence hands out to a row inserted later
FirstFreeId == SeedId("s3") + 1

\* ---------------------------------------------------------- Go struct values
\* *UsedBaseResourceType; NilRec is the nil pointer
NilRec == [ID |-> 0, Name |-> "", UniqueVersionHistory |-> FALSE, Defaults |-> NilSource]
UsedBaseResourceType(id, name, unique, defaults) ==
    [ID |-> id, Name |-> name, UniqueVersionHistory |-> unique, Defaults |-> defaults]

\* (a decoder that accepts any text and leaves the map nil)
json_Unmarshal_Lenient(s) == [err |-> NoErr, val |-> NilSource]

\* json.Unmarshal([]byte(defaultsString.String), &defaults)
json_Unmarshal(s) ==
    IF s = JsonDefaults THEN [err |-> NoErr, val |-> KVSource]
    ELSE [err |-> ErrJson, val |-> NilSource]

\* sql.ErrNoRows, the error Scan returns when the query has no row
sql_ErrNoRows == "sql: no rows in result set"

NoArg == [op |-> "none", Id |-> 0, Name |-> "", unique |-> FALSE]
NoRet == [op |-> "none", err |-> NoErr, found |-> FALSE, rec |-> NilRec,
          path |-> "none", Id |-> 0, Name |-> "", unique |-> FALSE]
NoUbrt == [found |-> FALSE, rec |-> NilRec]

VARIABLES
    catalog,    \* committed rows: name -> row
    draft,      \* uncommitted row version written by writer[n]: name -> row
    writer,     \* the transaction holding the row's write lock: name -> caller or 0
    share,      \* transactions holding a FOR SHARE lock on the row: name -> set
    nextId,     \* the id sequence of the table
    pc,         \* caller -> "idle" | "ready" | "find" | "create" | "aborted"
    arg,        \* caller -> receiver and arguments of the call in progress
    ubrt,       \* caller -> what Find returned to FindOrCreate (found, record)
    ret,        \* caller -> what the caller's last call returned
    ncalls,     \* number of calls issued so far, by all callers
    rlog,       \* history: every successful FindOrCreate: [name, id, req, flag]
    txlog,      \* history: caller -> those of its open transaction, in order
    clog,       \* history: those whose transaction has committed
    held,       \* history: name -> the (id, flag) images the row has held, committed
    failed      \* history: the names a FindOrCreate call has returned an error for

vars == <<catalog, draft, writer, share, nextId, pc, arg, ubrt, ret, ncalls,
          rlog, txlog, clog, held, failed>>
store == <<catalog, draft, writer, share, nextId>>
history == <<rlog, txlog, clog, held, failed>>

\* ------------------------------------------------------------ the statements

\* The row version a statement of transaction t sees for name n: its own
\* uncommitted write, else the committed row (READ COMMITTED).
VisibleRow(t, n) == IF writer[n] = t THEN draft[n] ELSE catalog[n]

\* (a Find that selects by name whenever Name is populated)
Selected_NameFirst(t, brt) ==
    IF brt.Name = ""
    THEN {n \in Names : Exists(VisibleRow(t, n)) /\ VisibleRow(t, n).id = brt.Id}
    ELSE {n \in Names : Exists(VisibleRow(t, n)) /\ n = brt.Name}

\* (a Find whose SELECT has no WHERE clause: any row matches)
Selected_AnyRow(t, brt) == {n \in Names : Exists(VisibleRow(t, n))}

\* Find, lines 57-61: WHERE id = brt.Id when brt.Id > 0, else WHERE name = brt.Name.
\* The set of names whose visible row matches (at most one: name and id are keys).
Selected(t, brt) ==
    IF brt.Id > 0
    THEN {n \in Names : Exists(VisibleRow(t, n)) /\ VisibleRow(t, n).id = brt.Id}
    ELSE {n \in Names : Exists(VisibleRow(t, n)) /\ n = brt.Name}

\* (a Find that passes sql.ErrNoRows on to its caller)
FindErr_PassNoRows(scanErr) == scanErr

\* Find, lines 66-72: the error Find returns for the error Scan returned
FindErr(scanErr) == IF scanErr = sql_ErrNoRows THEN NoErr ELSE scanErr

\* (a Find that leaves UniqueVersionHistory unset in the record)
ScanRecord_FlagUnset(row, name, defaults) ==
    [ID |-> row.id, Name |-> name, UniqueVersionHistory |-> FALSE, Defaults |-> defaults]

\* Find, lines 62-65 and 82: the record built from the scanned columns
ScanRecord(row, name, defaults) ==
    UsedBaseResourceType(row.id, name, row.unique, defaults)

\* (a Find that does not decode the defaults column)
DecodeDefaults_Skip(column) == [err |-> NoErr, val |-> NilSource]

\* Find, lines 74-80: the decoded defaults and the decoding error
DecodeDefaults(column) ==
    IF column = NullDefaults
    THEN [err |-> NoErr, val |-> NilSource]
    ELSE json_Unmarshal(column)

\* (a FindOrCreate that returns any row it finds, whatever its flag)
FindOrCreateStep_NoFlagCheck(found, err, storedUnique, unique) ==
    IF err # NoErr THEN "return err"
    ELSE IF found THEN "return ubrt"
    ELSE "create"

\* (a FindOrCreate that does not look at Find's error)
FindOrCreateStep_IgnoreErr(found, err, storedUnique, unique) ==
    IF found /\ storedUnique = unique THEN "return ubrt" ELSE "create"

\* FindOrCreate, lines 38-47: what the call does with Find's result
FindOrCreateStep(found, err, storedUnique, unique) ==
    IF err # NoErr THEN "return err"
    ELSE IF found /\ storedUnique = unique THEN "return ubrt"
    ELSE "create"

\* (a merge that overwrites: SET unique_version_history = EXCLUDED.unique_version_history)
MergeUnique_Overwrite(excluded, existing) == excluded

\* ON CONFLICT (name) DO UPDATE SET unique_version_history =
\*   EXCLUDED.unique_version_history OR base_resource_types.unique_version_history
MergeUnique(excluded, existing) == excluded \/ existing

\* (an upsert that replaces the row on a conflict, giving it a new id)
UpsertRow_Replace(cur, unique, newId) ==
    [id |-> newId,
     unique |-> IF Exists(cur) THEN MergeUnique(unique, cur.unique) ELSE unique,
     defaults |-> NullDefaults]

\* (an upsert that also overwrites the defaults: SET defaults = EXCLUDED.defaults)
UpsertRow_ClearDefaults(cur, unique, newId) ==
    IF Exists(cur)
    THEN [cur EXCEPT !.unique = MergeUnique(unique, cur.unique), !.defaults = NullDefaults]
    ELSE [id |-> newId, unique |-> unique, defaults |-> NullDefaults]

\* The row image INSERT ... ON CONFLICT DO UPDATE leaves for the name: a new row
\* with the next id of the sequence, or the existing row with the merged flag.
UpsertRow(cur, unique, newId) ==
    IF Exists(cur)
    THEN [cur EXCEPT !.unique = MergeUnique(unique, cur.unique)]
    ELSE [id |-> newId, unique |-> unique, defaults |-> NullDefaults]

\* ------------------------------------------------------------------ waiting
\* The transactions a statement of t has to wait for.
FindWaitsFor(t) ==
    {writer[n] : n \in {m \in Selected(t, arg[t]) : writer[m] \notin {0, t}}}

CreateWaitsFor(t) ==
    LET n == arg[t].Name IN
    ({writer[n]} \ {0, t})
      \cup (IF Exists(VisibleRow(t, n)) THEN share[n] \ {t} ELSE {})

WaitsFor(t) ==
    IF pc[t] = "find" THEN FindWaitsFor(t)
    ELSE IF pc[t] = "create" THEN CreateWaitsFor(t)
    ELSE {}

RECURSIVE Reach(_, _)
Reach(S, k) ==
    IF k = 0 THEN S
    ELSE Reach(S \cup UNION {WaitsFor(u) : u \in S}, k - 1)

\* t waits, directly or through others, for a transaction that waits for t
InWaitCycle(t) == t \in Reach(WaitsFor(t), MaxCallers)

\* ---------------------------------------------------------------------- Init
\* The rows the table may hold at the start: "git" in any state a row can be in,
\* "s3" not yet registered.
SeedRows(n) ==
    IF n = "git"
    THEN {NoRow} \cup {[id |-> SeedId(n), unique |-> u, defaults |-> d] :
                         u \in BOOLEAN, d \in DefaultsColumn}
    ELSE {NoRow}

\* A row present at the start was registered by earlier, committed calls: the
\* histories start with the call that left its flag.
SeedLog(c) ==
    {[name |-> n, id |-> c[n].id, req |-> c[n].unique, flag |-> c[n].unique] :
        n \in {m \in Names : Exists(c[m])}}

Init ==
    /\ catalog \in {c \in [Names -> UNION {SeedRows(n) : n \in Names}] :
                      \A n \in Names : c[n] \in SeedRows(n)}
    /\ draft = [n \in Names |-> NoRow]
    /\ writer = [n \in Names |-> 0]
    /\ share = [n \in Names |-> {}]
    /\ nextId = FirstFreeId
    /\ pc = [t \in Callers |-> "idle"]
    /\ arg = [t \in Callers |-> NoArg]
    /\ ubrt = [t \in Callers |-> NoUbrt]
    /\ ret = [t \in Callers |-> NoRet]
    /\ ncalls = 0
    /\ rlog = SeedLog(catalog)
    /\ clog = SeedLog(catalog)
    /\ txlog = [t \in Callers |-> <<>>]
    /\ held = [n \in Names |->
                 IF Exists(catalog[n])
                 THEN {[id |-> catalog[n].id, unique |-> catalog[n].unique]} ELSE {}]
    /\ failed = {}

\* ------------------------------------------------------------------- actions
\* What a call of t returns, with the call it answers: found is what Find
\* reported, path the statement the call returned from.
Result(t, err, found, rec, path) ==
    [op |-> arg[t].op, err |-> err, found |-> found, rec |-> rec, path |-> path,
     Id |-> arg[t].Id, Name |-> arg[t].Name, unique |-> arg[t].unique]

\* the call of t returns r: the caller holds r, the frame of the call is gone
Return(t, r, to) ==
    /\ ret' = [ret EXCEPT ![t] = r]
    /\ pc' = [pc EXCEPT ![t] = to]
    /\ arg' = [arg EXCEPT ![t] = NoArg]
    /\ ubrt' = [ubrt EXCEPT ![t] = NoUbrt]
    /\ IF r.op = "FindOrCreate" /\ r.err = NoErr
       THEN LET e == [name |-> r.Name, id |-> r.rec.ID, req |-> r.unique,
                      flag |-> r.rec.UniqueVersionHistory]
            IN /\ rlog' = rlog \cup {e}
               /\ txlog' = [txlog EXCEPT ![t] = Append(@, e)]
               /\ UNCHANGED failed
       ELSE /\ failed' = IF r.op = "FindOrCreate" THEN failed \cup {r.Name} ELSE failed
            /\ UNCHANGED <<rlog, txlog>>
    /\ UNCHANGED <<clog, held, ncalls>>

\* The caller calls brt.FindOrCreate(tx, unique) or brt.Find(tx), in the
\* transaction it has open or in a new one.
Call(t, op, id, name, unique) ==
    /\ pc[t] \in {"idle", "ready"}
    /\ ncalls < MaxCalls
    /\ arg' = [arg EXCEPT ![t] = [op |-> op, Id |-> id, Name |-> name, unique |-> unique]]
    /\ pc' = [pc EXCEPT ![t] = "find"]
    /\ ncalls' = ncalls + 1
    /\ ret' = [ret EXCEPT ![t] = NoRet]
    /\ UNCHANGED <<store, ubrt, history>>

CallFindOrCreate(t, id, name, unique) == Call(t, "FindOrCreate", id, name, unique)

CallFind(t, id, name) == Call(t, "Find", id, name, FALSE)

\* (a Find that registers the name it does not find)
FindAbsent_Register(t) ==
    /\ pc[t] = "find"
    /\ Selected(t, arg[t]) = {}
    /\ LET n == arg[t].Name IN
       /\ n \in Names
       /\ draft' = [draft EXCEPT ![n] =
                      IF writer[n] = 0
                      THEN [id |-> nextId, unique |-> FALSE, defaults |-> NullDefaults]
                      ELSE @]
       /\ writer' = [writer EXCEPT ![n] = IF @ = 0 THEN t ELSE @]
       /\ nextId' = nextId + 1
    /\ LET err == FindErr(sql_ErrNoRows) IN
       IF arg[t].op = "Find"
            \/ FindOrCreateStep(FALSE, err, FALSE, arg[t].unique) = "return err"
       THEN Return(t, Result(t, err, FALSE, NilRec, "find"),
                   IF err = NoErr THEN "ready" ELSE "aborted")
       ELSE /\ pc' = [pc EXCEPT ![t] = "create"]
            /\ ubrt' = [ubrt EXCEPT ![t] = NoUbrt]
            /\ UNCHANGED <<arg, ret, ncalls, history>>
    /\ UNCHANGED <<catalog, share>>

\* Find, lines 62-68: no visible row matches and Scan returns sql.ErrNoRows.
\* Find returns (nil, false, nil); FindOrCreate goes on to create.
FindAbsent(t) ==
    /\ pc[t] = "find"
    /\ Selected(t, arg[t]) = {}
    /\ LET err == FindErr(sql_ErrNoRows) IN
       IF arg[t].op = "Find"
            \/ FindOrCreateStep(FALSE, err, FALSE, arg[t].unique) = "return err"
       THEN Return(t, Result(t, err, FALSE, NilRec, "find"),
                   IF err = NoErr THEN "ready" ELSE "aborted")
       ELSE /\ pc' = [pc EXCEPT ![t] = "create"]
            /\ ubrt' = [ubrt EXCEPT ![t] = NoUbrt]
            /\ UNCHANGED <<arg, ret, ncalls, history>>
    /\ UNCHANGED store

\* Find, lines 62-82: a row matches. The statement waits for the row's
\* uncommitted writer, locks the row FOR SHARE and scans it; then the defaults
\* are decoded. FindOrCreate, lines 39-47, returns the record when the flag
\* equals the requested one and goes on to create otherwise.
FindRow(t) ==
    /\ pc[t] = "find"
    /\ \E n \in Selected(t, arg[t]) :
        LET row == VisibleRow(t, n)
            dec == DecodeDefaults(row.defaults)
            rec == IF dec.err = NoErr
                   THEN ScanRecord(row, n, dec.val)
                   ELSE NilRec
            found == dec.err = NoErr
            step == IF arg[t].op = "Find" THEN "return find"
                    ELSE FindOrCreateStep(found, dec.err, rec.UniqueVersionHistory,
                                          arg[t].unique)
        IN
        /\ FindWaitsFor(t) = {}
        /\ share' = [share EXCEPT ![n] = @ \cup {t}]
        /\ IF step = "create"
           THEN /\ pc' = [pc EXCEPT ![t] = "create"]
                /\ ubrt' = [ubrt EXCEPT ![t] = [found |-> found, rec |-> rec]]
                /\ UNCHANGED <<arg, ret, ncalls, history>>
           ELSE Return(t, Result(t, dec.err, found, rec,
                                 IF step = "return ubrt" THEN "fast" ELSE "find"),
                       "ready")
    /\ UNCHANGED <<catalog, draft, writer, nextId>>

\* Find, lines 66-71: the SELECT fails with a storage error and the
\* transaction is left aborted. Find returns the error; so does FindOrCreate.
FindFails(t) ==
    /\ pc[t] = "find"
    /\ LET err == FindErr(ErrStorage) IN
       IF arg[t].op = "Find"
            \/ FindOrCreateStep(FALSE, err, FALSE, arg[t].unique) = "return err"
       THEN Return(t, Result(t, err, FALSE, NilRec, "find"), "aborted")
       ELSE /\ pc' = [pc EXCEPT ![t] = "create"]
            /\ ubrt' = [ubrt EXCEPT ![t] = NoUbrt]
            /\ UNCHANGED <<arg, ret, ncalls, history>>
    /\ UNCHANGED store

\* create, lines 85-104: the INSERT ... ON CONFLICT DO UPDATE ... RETURNING.
\* It waits for an uncommitted writer of the name and, to update an existing
\* row, for the other holders of a share lock on it.
create(t) ==
    /\ pc[t] = "create"
    /\ CreateWaitsFor(t) = {}
    /\ LET n == arg[t].Name
           row == UpsertRow(VisibleRow(t, n), arg[t].unique, nextId)
       IN
       /\ draft' = [draft EXCEPT ![n] = row]
       /\ writer' = [writer EXCEPT ![n] = t]
       /\ nextId' = nextId + 1
       /\ Return(t, Result(t, NoErr, ubrt[t].found,
                           UsedBaseResourceType(row.id, n, row.unique, NilSource),
                           "write"),
                 "ready")
    /\ UNCHANGED <<catalog, share>>

\* create, lines 100-102: the statement fails with a storage error.
createFails(t) ==
    /\ pc[t] = "create"
    /\ Return(t, Result(t, ErrStorage, ubrt[t].found, NilRec, "write"), "aborted")
    /\ UNCHANGED store

\* The storage engine finds t in a cycle of waiting transactions and fails
\* t's statement with a deadlock error; the call returns the error.
DeadlockDetected(t) ==
    /\ pc[t] \in {"find", "create"}
    /\ InWaitCycle(t)
    /\ Return(t, Result(t, ErrDeadlock, ubrt[t].found, NilRec,
                        IF pc[t] = "find" THEN "find" ELSE "write"),
              "aborted")
    /\ UNCHANGED store

\* the end of t's transaction: its locks go
EndTx(t) ==
    /\ writer' = [n \in Names |-> IF writer[n] = t THEN 0 ELSE writer[n]]
    /\ draft' = [n \in Names |-> IF writer[n] = t THEN NoRow ELSE draft[n]]
    /\ share' = [n \in Names |-> share[n] \ {t}]
    /\ pc' = [pc EXCEPT ![t] = "idle"]
    /\ txlog' = [txlog EXCEPT ![t] = <<>>]
    /\ UNCHANGED <<nextId, arg, ubrt, ret, ncalls, rlog, failed>>

\* the caller commits: its row versions become the committed ones
Commit(t) ==
    /\ pc[t] = "ready"
    /\ catalog' = [n \in Names |-> IF writer[n] = t THEN draft[n] ELSE catalog[n]]
    /\ clog' = clog \cup {txlog[t][i] : i \in 1..Len(txlog[t])}
    /\ held' = [n \in Names |->
                  IF writer[n] = t
                  THEN held[n] \cup {[id |-> draft[n].id, unique |-> draft[n].unique]}
                  ELSE held[n]]
    /\ EndTx(t)

\* the caller rolls back (after an error, or because it was cancelled)
Rollback(t) ==
    /\ pc[t] \in {"ready", "aborted"}
    /\ EndTx(t)
    /\ UNCHANGED <<catalog, clog, held>>

Next ==
    \E t \in Callers :
        \/ \E u \in BOOLEAN : CallFindOrCreate(t, 0, "git", u)
        \/ CallFind(t, 0, "git")
        \/ FindAbsent(t)
        \/ FindRow(t)
        \/ FindFails(t)
        \/ create(t)
        \/ createFails(t)
        \/ DeadlockDetected(t)
        \/ Commit(t)
        \/ Rollback(t)

Spec == Init /\ [][Next]_vars

\* ===================================================================== claims
AllIdle == \A t \in Callers : pc[t] = "idle"

\* the history entries of name n
Of(log, n) == {e \in log : e.name = n}

\* the logical OR of the flags requested by the entries of L
ReqOr(L) == \E e \in L : e.req

\* the step in which a FindOrCreate call of t returns without error
ReturnsOK(t) ==
    /\ pc[t] \in {"find", "create"}
    /\ pc'[t] = "ready"
    /\ ret'[t].op = "FindOrCreate"
    /\ ret'[t].err = NoErr

\* ------------------------------------------------------------------------ C1
\* C1: for every name, once the committed unique_version_history of the row
\* with that name is true, no step of any caller (Find, FindOrCreate with any
\* flag, commit or rollback) leaves the row absent or its flag false.
NoDemotion ==
    [][\A n \in Names :
         (Exists(catalog[n]) /\ catalog[n].unique)
            => (Exists(catalog'[n]) /\ catalog'[n].unique)]_vars

\* A call that requested false on a row whose flag was true took the write
\* path and committed, and the flag is still true.
NoDemotionWitness ==
    \E e \in clog : ~e.req /\ e.flag /\ catalog[e.name].unique

\* ------------------------------------------------------------------------ C2
\* C2, as stated: once every transaction has ended and every FindOrCreate call
\* issued for a name has returned without error, the row exists and its stored
\* flag is the OR of the flags those calls requested.
ORAccumulationOriginal ==
    \A n \in Names :
        (AllIdle /\ n \notin failed /\ Of(rlog, n) # {})
            => (Exists(catalog[n]) /\ catalog[n].unique = ReqOr(Of(rlog, n)))

\* C2, amended: once every FindOrCreate call issued for a name has returned
\* without error and the transaction of each has committed, the row exists and
\* its stored flag is the OR of the flags those calls requested.
ORAccumulation ==
    \A n \in Names :
        (AllIdle /\ n \notin failed /\ Of(rlog, n) # {} /\ Of(rlog, n) = Of(clog, n))
            => (Exists(catalog[n]) /\ catalog[n].unique = ReqOr(Of(rlog, n)))

\* A name first registered here by one call requesting true and one requesting
\* false, both committed: the stored flag is true.
ORAccumulationWitness ==
    /\ AllIdle
    /\ "git" \notin failed
    /\ Of(rlog, "git") = Of(clog, "git")
    /\ \E e1, e2 \in clog :
        /\ e1.name = "git" /\ e2.name = "git"
        /\ e1.id >= FirstFreeId /\ e2.id = e1.id
        /\ e1.req /\ ~e2.req
    /\ catalog["git"].unique

\* ------------------------------------------------------------------------ C3
\* the last call of t was a FindOrCreate that returned a record and no error
HoldsRecord(t) == ret[t].op = "FindOrCreate" /\ ret[t].err = NoErr

\* C3, as stated: two callers whose FindOrCreate calls for the same name both
\* saw the name absent (first-time calls) and both returned without error
\* hold the same id (the table, keyed by name, holds one row for the name).
UniquenessOriginal ==
    \A t, u \in Callers :
        (/\ t # u
         /\ HoldsRecord(t) /\ HoldsRecord(u)
         /\ ret[t].Name = ret[u].Name
         /\ ~ret[t].found /\ ~ret[u].found)
            => ret[t].rec.ID = ret[u].rec.ID

\* C3, amended: every caller whose FindOrCreate for a name returns without
\* error and whose transaction commits returns the same id, the id of the one
\* row the table holds for the name.
Uniqueness ==
    \A n \in Names : \A e \in Of(clog, n) :
        Exists(catalog[n]) /\ e.id = catalog[n].id

\* A caller whose Find saw no row for the name lost the race: another caller
\* committed the row first, and this caller's write merged into that row.
UniquenessWitness ==
    \E t \in Callers :
        /\ pc[t] = "ready"
        /\ HoldsRecord(t)
        /\ ret[t].path = "write" /\ ~ret[t].found
        /\ writer[ret[t].Name] = t
        /\ Exists(catalog[ret[t].Name])
        /\ catalog[ret[t].Name].id >= FirstFreeId
        /\ ret[t].rec.ID = catalog[ret[t].Name].id

NoDeadlock == \A t \in Callers : ~InWaitCycle(t)

\* ------------------------------------------------------------------------ C6
\* C6, as stated: no FindOrCreate call returns the flag false for a name
\* after a call for that name has returned true.
MonotoneObservationsOriginal ==
    [][\A t \in Callers :
         (ReturnsOK(t) /\ ~ret'[t].rec.UniqueVersionHistory)
            => ~\E e \in Of(rlog, ret'[t].Name) : e.flag]_vars

\* C6, amended: no FindOrCreate call returns the flag false for a name after
\* a call for that name has returned true, unless the transaction of every
\* call that returned true was rolled back.
MonotoneObservations ==
    [][\A t \in Callers :
         (ReturnsOK(t) /\ ~ret'[t].rec.UniqueVersionHistory)
            => \A e \in Of(rlog, ret'[t].Name) :
                 e.flag => /\ e \notin clog
                           /\ \A u \in Callers : \A i \in 1..Len(txlog[u]) :
                                txlog[u][i] # e]_vars

\* After a call that returned true for a name created here has committed,
\* a call requesting false for the name has returned, with the flag true.
MonotoneObservationsWitness ==
    \E t \in Callers :
        /\ pc[t] = "ready"
        /\ HoldsRecord(t)
        /\ ~ret[t].unique
        /\ ret[t].rec.UniqueVersionHistory
        /\ \E e \in Of(clog, ret[t].Name) : e.flag /\ e.req /\ e.id >= FirstFreeId

\* ------------------------------------------------------------------------ C7
\* the step in which the Find statement of t, called directly or by
\* FindOrCreate, returns a record; FindRecord is the record
FindReturnsRecord(t) ==
    /\ pc[t] = "find"
    /\ \/ pc'[t] = "create" /\ ubrt'[t].found
       \/ pc'[t] = "ready" /\ ret'[t].err = NoErr /\ ret'[t].found

FindRecord(t) == IF pc'[t] = "create" THEN ubrt'[t].rec ELSE ret'[t].rec

\* C7: every record Find returns carries the name of a row and an (id, flag)
\* pair that this row has held as its committed state, before or after one of
\* the merge writes, or holds as the uncommitted write of the reader's own
\* transaction; never a pair the row did not hold.
ReadConsistency ==
    [][\A t \in Callers :
         FindReturnsRecord(t) =>
            LET r == FindRecord(t) IN
            /\ r.Name \in Names
            /\ \/ [id |-> r.ID, unique |-> r.UniqueVersionHistory] \in held[r.Name]
               \/ /\ writer[r.Name] = t
                  /\ r.ID = draft[r.Name].id
                  /\ r.UniqueVersionHistory = draft[r.Name].unique]_vars

\* A direct Find has returned the row after a merge write changed its flag,
\* and holds its share lock while another caller's merge write waits for it.
ReadConsistencyWitness ==
    \E t, u \in Callers :
        /\ t # u
        /\ pc[t] = "ready" /\ ret[t].op = "Find" /\ ret[t].found
        /\ Cardinality(held[ret[t].rec.Name]) = 2
        /\ ret[t].rec.UniqueVersionHistory
        /\ pc[u] = "create" /\ arg[u].Name = ret[t].rec.Name
        /\ t \in CreateWaitsFor(u)

\* ------------------------------------------------------------------------ C8
\* C8, as stated: all the FindOrCreate calls for a name that return without
\* error return one and the same id.
StableIdOriginal ==
    \A n \in Names : \A e1, e2 \in Of(rlog, n) : e1.id = e2.id

\* C8, amended: the id of the committed row of a name never changes, whatever
\* merge is written later; every FindOrCreate call for the name that returns
\* without error while that row exists returns this id, whatever flag it
\* requests, and so does every call whose transaction commits.
StableId ==
    [][\A n \in Names :
         /\ Exists(catalog[n]) => catalog'[n].id = catalog[n].id
         /\ \A t \in Callers :
              (ReturnsOK(t) /\ ret'[t].Name = n /\ Exists(catalog[n]))
                 => ret'[t].rec.ID = catalog[n].id
         /\ \A e \in Of(clog', n) : e.id = catalog'[n].id]_vars

\* A name was created here with the flag false, then registered with true,
\* then with false again: one id three times, and the flag is true.
StableIdWitness ==
    \E e1, e2, e3 \in Of(clog, "git") :
        /\ e1.id >= FirstFreeId /\ e2.id = e1.id /\ e3.id = e1.id
        /\ ~e1.req /\ ~e1.flag
        /\ e2.req /\ e2.flag
        /\ ~e3.req /\ e3.flag
        /\ catalog["git"].id = e1.id /\ catalog["git"].unique

\* ------------------------------------------------------------------------ C9
\* the row of name n matches the selector of brt
MatchesSelector(row, n, brt) ==
    Exists(row) /\ (IF brt.Id > 0 THEN row.id = brt.Id ELSE n = brt.Name)

\* C9: a direct Find returns found = false with a nil error only when no row
\* the statement can see matches the selector, and always when none matches
\* and the statement did not fail; the absent result is no error.
AbsentIsNotAnError ==
    [][\A t \in Callers :
         (pc[t] = "find" /\ arg[t].op = "Find" /\ pc'[t] # "find") =>
            LET absent == ~ret'[t].found /\ ret'[t].err = NoErr
                nomatch == \A n \in Names : ~MatchesSelector(VisibleRow(t, n), n, arg[t])
            IN /\ absent => nomatch
               /\ (nomatch /\ ret'[t].err \notin {ErrStorage, ErrDeadlock}) => absent]_vars

\* Find by name on an empty table has returned absent with no error.
AbsentIsNotAnErrorWitness ==
    \E t \in Callers :
        /\ pc[t] = "ready"
        /\ ret[t].op = "Find" /\ ~ret[t].found /\ ret[t].err = NoErr
        /\ \A n \in Names : ~Exists(catalog[n]) /\ writer[n] = 0

\* ----------------------------------------------------------------------- C10
\* C10: a FindOrCreate call whose read or write statement fails returns the
\* error and no record and is over (no retry); the failing statement leaves
\* every row, committed or not, as it was; and the call goes from its read to
\* its write only after a read that succeeded (a row, or no row).
FailureAtomicity ==
    [][\A t \in Callers :
         /\ (/\ pc[t] \in {"find", "create"}
             /\ pc'[t] \notin {"find", "create"}
             /\ ret'[t].op = "FindOrCreate"
             /\ ret'[t].err # NoErr)
               => /\ ret'[t].rec = NilRec
                  /\ pc'[t] \in {"aborted", "ready"}
                  /\ ncalls' = ncalls
                  /\ catalog' = catalog /\ draft' = draft /\ writer' = writer
                  /\ nextId' = nextId
         /\ (pc[t] = "find" /\ pc'[t] = "create")
               => \/ ubrt'[t].found
                  \/ \A n \in Names : ~MatchesSelector(VisibleRow(t, n), n, arg[t])]_vars

\* The write of a FindOrCreate call on an existing row has failed with a
\* storage error.
FailureAtomicityWitness ==
    \E t \in Callers :
        /\ pc[t] = "aborted"
        /\ ret[t].op = "FindOrCreate" /\ ret[t].err = ErrStorage
        /\ ret[t].path = "write" /\ ret[t].found
        /\ Exists(catalog[ret[t].Name])

\* ----------------------------------------------------------------------- C11
\* the step in which a direct Find call of t returns
FindReturns(t) == pc[t] = "find" /\ arg[t].op = "Find" /\ pc'[t] # "find"

\* C11: a Find call, whether it returns a record, absent or an error, leaves
\* every row as it was, committed or not: no row is added or removed, no
\* row's id, flag or defaults changes, and the id sequence is not advanced.
FindIsReadOnly ==
    [][\A t \in Callers :
         FindReturns(t) => /\ catalog' = catalog
                           /\ draft' = draft
                           /\ writer' = writer
                           /\ nextId' = nextId]_vars

\* One caller's Find has returned the record of the row, another caller's
\* Find has returned an error, and the row is there.
FindIsReadOnlyWitness ==
    \E t, u \in Callers :
        /\ t # u
        /\ ret[t].op = "Find" /\ ret[t].found /\ ret[t].err = NoErr
        /\ ret[u].op = "Find" /\ ret[u].err = ErrStorage
        /\ Exists(catalog[ret[t].rec.Name])

\* ----------------------------------------------------------------------- C12
\* C12: no step of a Find or FindOrCreate call, on the fast path or on the
\* merge path, and no commit or rollback, changes the defaults stored on a
\* row: the committed row keeps its defaults, and so does the row version a
\* merge write leaves.
DefaultsImmutable ==
    [][\A n \in Names :
         /\ Exists(catalog[n]) =>
               /\ Exists(catalog'[n])
               /\ catalog'[n].defaults = catalog[n].defaults
         /\ (Exists(catalog[n]) /\ Exists(draft'[n])) =>
               draft'[n].defaults = catalog[n].defaults
         /\ (Exists(draft[n]) /\ Exists(draft'[n])) =>
               draft'[n].defaults = draft[n].defaults]_vars

\* A merge write has promoted the flag of a row that stores a defaults
\* document and has committed; the row still stores the document.
DefaultsImmutableWitness ==
    \E n \in Names :
        /\ Exists(catalog[n]) /\ catalog[n].defaults = JsonDefaults
        /\ Cardinality(held[n]) = 2
        /\ \E e \in Of(clog, n) : e.req /\ e.flag

\* ----------------------------------------------------------------------- C13
\* The rows the table may hold at the start when callers register both names:
\* each name not yet registered, or registered with either flag.
NameSeedRows(n) ==
    {NoRow} \cup {[id |-> SeedId(n), unique |-> u, defaults |-> JsonDefaults] :
                    u \in BOOLEAN}

InitNames ==
    /\ catalog \in {c \in [Names -> UNION {NameSeedRows(n) : n \in Names}] :
                      \A n \in Names : c[n] \in NameSeedRows(n)}
    /\ draft = [n \in Names |-> NoRow]
    /\ writer = [n \in Names |-> 0]
    /\ share = [n \in Names |-> {}]
    /\ nextId = FirstFreeId
    /\ pc = [t \in Callers |-> "idle"]
    /\ arg = [t \in Callers |-> NoArg]
    /\ ubrt = [t \in Callers |-> NoUbrt]
    /\ ret = [t \in Callers |-> NoRet]
    /\ ncalls = 0
    /\ rlog = SeedLog(catalog)
    /\ clog = SeedLog(catalog)
    /\ txlog = [t \in Callers |-> <<>>]
    /\ held = [n \in Names |->
                 IF Exists(catalog[n])
                 THEN {[id |-> catalog[n].id, unique |-> catalog[n].unique]} ELSE {}]
    /\ failed = {}

\* Callers register either name, by name, with either flag. The statements
\* wait, succeed or are failed by the deadlock detector.
NextNames ==
    \E t \in Callers :
        \/ \E n \in Names, u \in BOOLEAN : CallFindOrCreate(t, 0, n, u)
        \/ FindAbsent(t)
        \/ FindRow(t)
        \/ create(t)
        \/ DeadlockDetected(t)
        \/ Commit(t)
        \/ Rollback(t)

SpecNames == InitNames /\ [][NextNames]_vars

\* everything the table holds about name n: the row, its uncommitted version
\* and the locks on it
RowState(n) == <<catalog[n], draft[n], writer[n], share[n]>>

\* a statement of a FindOrCreate call of t executes
FindOrCreateStmt(t) ==
    /\ pc[t] \in {"find", "create"}
    /\ arg[t].op = "FindOrCreate"
    /\ pc'[t] # pc[t]

\* no row, committed or not, carries the id
FreshId(id) == \A m \in Names : catalog[m].id # id /\ draft[m].id # id

ReadOver(t) == pc[t] = "find" /\ arg[t].op = "FindOrCreate" /\ pc'[t] # "find"

\* C14: when the read of a FindOrCreate call is over and returned no error,
\* the call goes on to the insert-or-merge statement if and only if the read
\* found no row or a row whose flag differs from the requested one; otherwise
\* the call is over, has written nothing, and returns the record as read: the
\* id, name, flag and decoded defaults of the row.
WriteExactlyWhenNeeded ==
    [][\A t \in Callers :
         (ReadOver(t) /\ ~(pc'[t] # "create" /\ ret'[t].err # NoErr)) =>
            LET n == arg[t].Name
                cur == VisibleRow(t, n)
                needed == ~Exists(cur) \/ cur.unique # arg[t].unique
            IN
            /\ (pc'[t] = "create") <=> needed
            /\ (pc'[t] # "create") =>
                  /\ pc'[t] = "ready"
                  /\ ret'[t].path = "fast"
                  /\ ret'[t].rec.ID = cur.id
                  /\ ret'[t].rec.Name = n
                  /\ ret'[t].rec.UniqueVersionHistory = cur.unique
                  /\ ret'[t].rec.Defaults
                        = (IF cur.defaults = JsonDefaults THEN KVSource ELSE NilSource)
                  /\ catalog' = catalog /\ draft' = draft /\ writer' = writer
                  /\ nextId' = nextId]_vars

\* A call requesting true has returned the row, whose flag is true, on the
\* fast path, and no write statement has run since the start.
WriteExactlyWhenNeededWitness ==
    \E t \in Callers :
        /\ pc[t] = "ready"
        /\ HoldsRecord(t)
        /\ ret[t].path = "fast" /\ ret[t].unique
        /\ ret[t].rec.UniqueVersionHistory
        /\ ret[t].rec.Defaults = KVSource
        /\ nextId = FirstFreeId
        /\ \A n \in Names : writer[n] = 0

\* ----------------------------------------------------------------------- C15
\* The Id field of the receivers the callers use: not set (0), a negative
\* value, and the id of the row "s3" carries when it is registered at the start.
BrtIds == {0 - 1, 0, SeedId("s3")}

\* Callers use receivers with Name "git" and any of the Id values: Find with
\* each, FindOrCreate with Id not set or set to the id of another row.
NextById ==
    \E t \in Callers :
        \/ /\ ncalls < MaxIdCalls
           /\ \E id \in BrtIds \ {0 - 1}, u \in BOOLEAN : CallFindOrCreate(t, id, "git", u)
        \/ /\ ncalls < MaxIdCalls
           /\ \E id \in BrtIds : CallFind(t, id, "git")
        \/ FindAbsent(t)
        \/ FindRow(t)
        \/ FindFails(t)
        \/ create(t)
        \/ createFails(t)
        \/ DeadlockDetected(t)
        \/ Commit(t)
        \/ Rollback(t)

SpecById == InitNames /\ [][NextById]_vars

\* C15, as stated: the record a FindOrCreate call returns has the submitted
\* name and the id of the stored row with that name, whatever the Id field
\* of the receiver.
ResolvesByName ==
    [][\A t \in Callers :
         ReturnsOK(t) =>
            LET n == arg[t].Name
                stored == IF writer'[n] = t THEN draft'[n] ELSE catalog'[n]
            IN
            /\ ret'[t].rec.Name = n
            /\ Exists(stored)
            /\ ret'[t].rec.ID = stored.id]_vars

\* ----------------------------------------------------------------------- C16
\* C16: a Find that returns a record returns the row whose id is the Id field
\* when Id > 0, whatever Name holds, and the row whose name is Name when Id
\* is zero or negative; a Find that returns absent saw no such row.
SelectorPrecedence ==
    [][\A t \in Callers :
         (FindReturns(t) /\ ret'[t].err = NoErr) =>
            IF ret'[t].found
            THEN /\ ret'[t].rec.Name \in Names
                 /\ ret'[t].rec.ID = VisibleRow(t, ret'[t].rec.Name).id
                 /\ IF arg[t].Id > 0
                    THEN ret'[t].rec.ID = arg[t].Id
                    ELSE ret'[t].rec.Name = arg[t].Name
            ELSE IF arg[t].Id > 0
                 THEN \A n \in Names : VisibleRow(t, n).id # arg[t].Id
                 ELSE \A n \in Names : n = arg[t].Name => ~Exists(VisibleRow(t, n))]_vars

\* Both rows are registered. A Find with Id set to the id of "s3" and Name
\* "git" has returned the row "s3"; a Find with a negative Id and Name "git"
\* has returned the row "git".
SelectorPrecedenceWitness ==
    \E t, u \in Callers :
        /\ t # u
        /\ Exists(catalog["git"]) /\ Exists(catalog["s3"])
        /\ ret[t].op = "Find" /\ ret[t].found
        /\ ret[t].Id = catalog["s3"].id /\ ret[t].Name = "git"
        /\ ret[t].rec.Name = "s3" /\ ret[t].rec.ID = ret[t].Id
        /\ ret[u].op = "Find" /\ ret[u].found
        /\ ret[u].Id < 0 /\ ret[u].Name = "git"
        /\ ret[u].rec.Name = "git" /\ ret[u].rec.ID = catalog["git"].id

\* ----------------------------------------------------------------------- C17
\* C17: the record a FindOrCreate call returns from the write statement
\* carries the id and the flag the statement left on the row, and that flag
\* is the requested flag OR the flag the row had when the statement ran
\* (false when there was no row); so a call requesting true never returns a
\* record whose flag is false.
PostMergeResult ==
    [][\A t \in Callers :
         /\ (ReturnsOK(t) /\ pc[t] = "create") =>
               LET n == arg[t].Name
                   before == VisibleRow(t, n)
               IN
               /\ ret'[t].rec.UniqueVersionHistory
                     = (arg[t].unique \/ (Exists(before) /\ before.unique))
               /\ writer'[n] = t
               /\ ret'[t].rec.UniqueVersionHistory = draft'[n].unique
               /\ ret'[t].rec.ID = draft'[n].id
         /\ (ReturnsOK(t) /\ arg[t].unique) => ret'[t].rec.UniqueVersionHistory]_vars

\* A call requesting false whose read found the row with the flag true has
\* returned from the write statement: the record and the row carry true.
PostMergeResultWitness ==
    \E t \in Callers :
        /\ pc[t] = "ready"
        /\ HoldsRecord(t)
        /\ ret[t].path = "write" /\ ret[t].found
        /\ ~ret[t].unique
        /\ ret[t].rec.UniqueVersionHistory
        /\ writer[ret[t].Name] = t /\ draft[ret[t].Name].unique

\* ----------------------------------------------------------------------- C18
\* C18: when the read of a FindOrCreate call found the name absent and the
\* row is there by the time the write statement runs (another caller has
\* inserted and committed it), the statement has two outcomes only: a
\* failure of the storage engine that leaves the row alone, or a merge into
\* that row, which keeps its id, takes the flag (requested OR stored) and
\* returns that id and flag.
NoCheckThenActRace ==
    [][\A t \in Callers :
         (/\ pc[t] = "create" /\ pc'[t] # "create"
          /\ ~ubrt[t].found
          /\ Exists(VisibleRow(t, arg[t].Name))) =>
            LET n == arg[t].Name
                cur == VisibleRow(t, n)
            IN
            \/ /\ ret'[t].err = ErrStorage
               /\ catalog' = catalog /\ draft' = draft /\ writer' = writer
            \/ /\ ret'[t].err = NoErr
               /\ pc'[t] = "ready"
               /\ ret'[t].rec.ID = cur.id
               /\ ret'[t].rec.UniqueVersionHistory = (arg[t].unique \/ cur.unique)
               /\ writer'[n] = t
               /\ draft'[n].id = cur.id
               /\ draft'[n].unique = (arg[t].unique \/ cur.unique)
               /\ catalog' = catalog]_vars

\* A call requesting false saw the name absent; another caller inserted the
\* row with the flag true and committed; the call's write has merged into
\* that row and returned its id and the flag true.
NoCheckThenActRaceWitness ==
    \E t \in Callers :
        /\ pc[t] = "ready"
        /\ HoldsRecord(t)
        /\ ret[t].path = "write" /\ ~ret[t].found /\ ~ret[t].unique
        /\ Exists(catalog[ret[t].Name])
        /\ catalog[ret[t].Name].id >= FirstFreeId
        /\ catalog[ret[t].Name].unique
        /\ ret[t].rec.ID = catalog[ret[t].Name].id
        /\ ret[t].rec.UniqueVersionHistory
        /\ writer[ret[t].Name] = t

\* ----------------------------------------------------------------------- C19
\* C19: the record a FindOrCreate call returns from the write statement, for
\* a row it merged into or a row it inserted, has empty defaults whatever
\* the row stores; the record it returns on the fast path has the decoded
\* defaults of the row.
DefaultsInResult ==
    [][\A t \in Callers :
         ReturnsOK(t) =>
            LET cur == VisibleRow(t, arg[t].Name) IN
            IF pc[t] = "create"
            THEN ret'[t].rec.Defaults = NilSource
            ELSE ret'[t].rec.Defaults
                   = (IF cur.defaults = JsonDefaults THEN KVSource ELSE NilSource)]_vars

\* On a row that stores a defaults document, one caller's call has returned
\* the document on the fast path, and another caller's call has merged into
\* the row and returned empty defaults.
DefaultsInResultWitness ==
    \E t, u \in Callers :
        /\ t # u
        /\ HoldsRecord(t) /\ HoldsRecord(u)
        /\ ret[t].Name = ret[u].Name
        /\ catalog[ret[t].Name].defaults = JsonDefaults
        /\ ret[u].path = "fast" /\ ret[u].rec.Defaults = KVSource
        /\ ret[t].path = "write" /\ ret[t].found /\ ret[t].rec.Defaults = NilSource
        /\ ret[t].rec.ID = ret[u].rec.ID

\* ----------------------------------------------------------------------- C20
\* C20: when the row the read selects stores a defaults text that cannot be
\* decoded and the statement itself does not fail, Find returns the decoding
\* error and no record (not the absent result), FindOrCreate returns the
\* same error without going on to the write, and the row is left as it was.
UndecodableDefaults ==
    [][\A t \in Callers :
         (/\ pc[t] = "find" /\ pc'[t] # "find"
          /\ \E n \in Names :
                /\ MatchesSelector(VisibleRow(t, n), n, arg[t])
                /\ VisibleRow(t, n).defaults = BadDefaults
          /\ (pc'[t] = "create" \/ ret'[t].err \notin {ErrStorage, ErrDeadlock})) =>
            /\ pc'[t] = "ready"
            /\ ret'[t].err = ErrJson
            /\ ret'[t].rec = NilRec
            /\ ret'[t].path = "find"
            /\ catalog' = catalog /\ draft' = draft /\ writer' = writer
            /\ nextId' = nextId]_vars

\* On a row with undecodable defaults, a Find has returned the decoding
\* error, and so has a FindOrCreate that requested the flag the row does not
\* have.
UndecodableDefaultsWitness ==
    \E t, u \in Callers :
        /\ t # u
        /\ ret[t].op = "Find" /\ ret[t].err = ErrJson /\ ret[t].rec = NilRec
        /\ ret[u].op = "FindOrCreate" /\ ret[u].err = ErrJson /\ ret[u].rec = NilRec
        /\ catalog[ret[u].Name].defaults = BadDefaults
        /\ catalog[ret[u].Name].unique # ret[u].unique
        /\ writer[ret[u].Name] = 0

====
